---- MODULE Spec2Model ----
(***************************************************************************)
(* A model of PIL/ImagePalette.py: the channel-label splitter, the         *)
(* ImagePalette object (construction, copy, getdata, tobytes, getcolor,    *)
(* save), the raw() helper and load().                                     *)
(*                                                                         *)
(* Python strings are sequences of one-character strings, so that          *)
(* splitting, concatenation and formatting are computed.  Python objects   *)
(* that can be mutated or shared (palette buffers, the colors dict) live   *)
(* in heaps and are held by reference.                                     *)
(***************************************************************************)
EXTENDS Integers, Sequences, FiniteSets, TLC

VARIABLES
    palettes,   \* slot -> ImagePalette object (or NoPalette)
    buffers,    \* heap of buffer objects: ref -> [kind, data]
    colormaps,  \* heap of dicts: ref -> function from colour tuples to indices
    files,      \* the file objects the last save/load call opened or was given
    ret,        \* the outcome of the last call
    calls       \* number of calls made so far

vars == <<palettes, buffers, colormaps, files, ret, calls>>

----------------------------------------------------------------------------
(* Python values *)

None == [some |-> FALSE]
Some(x) == [some |-> TRUE, v |-> x]

\* bool(x) of an optional string / sequence: None and the empty one are falsy
Truthy(x) == x.some /\ Len(x.v) > 0

Upper == {"A","B","C","D","E","F","G","H","I","J","K","L","M",
          "N","O","P","Q","R","S","T","U","V","W","X","Y","Z"}
Lower == {"a","b","c","d","e","f","g","h","i","j","k","l","m",
          "n","o","p","q","r","s","t","u","v","w","x","y","z"}

\* a case test that calls no token lowercase
islowerNever(s) == FALSE

\* str.islower(): at least one cased character and no uppercase one
islower(s) ==
    /\ \E i \in 1..Len(s) : s[i] \in Lower
    /\ \A i \in 1..Len(s) : s[i] \notin Upper

\* a membership test that never finds the token
ContainsNever(seq, x) == FALSE

\* x in list
Contains(seq, x) == \E i \in 1..Len(seq) : seq[i] = x

\* s.split(';')[0]
BeforeSemicolon(s) ==
    IF \E i \in 1..Len(s) : s[i] = ";"
    THEN SubSeq(s, 1, (CHOOSE i \in 1..Len(s) :
                          /\ s[i] = ";"
                          /\ \A j \in 1..(i-1) : s[j] # ";") - 1)
    ELSE s

\* the loop of split_abbreviations from position i on
RECURSIVE SplitLoop(_, _, _, _)
SplitLoop(chars, i, abbreviations, current_token) ==
    IF i > Len(chars)
    THEN [abbreviations |-> abbreviations, current_token |-> current_token]
    ELSE LET char == chars[i] IN
         IF current_token = <<>>
         THEN SplitLoop(chars, i + 1, abbreviations, <<char>>)
         ELSE IF char \in Lower
         THEN SplitLoop(chars, i + 1, abbreviations, Append(current_token, char))
         ELSE SplitLoop(chars, i + 1,
                        IF /\ ~islower(current_token)
                           /\ ~Contains(abbreviations, current_token)
                        THEN Append(abbreviations, current_token)
                        ELSE abbreviations,
                        <<char>>)

split_abbreviations(s) ==
    LET end == SplitLoop(BeforeSemicolon(s), 1, <<>>, <<>>) IN
    IF /\ end.current_token # <<>>
       /\ ~Contains(end.abbreviations, end.current_token)
    THEN Append(end.abbreviations, end.current_token)
    ELSE end.abbreviations

----------------------------------------------------------------------------
(* Buffers *)

Entries == 256

\* a ramp that starts at 1
RampFromOne(n) == [k \in 1..(Entries * n) |-> k % Entries]

\* bytearray(range(256)) * n
Ramp(n) == [k \in 1..(Entries * n) |-> (k - 1) % Entries]

Buffer(kind, data) == [kind |-> kind, data |-> data]

\* the exceptions, by the message the code raises them with
InvalidSizeError == "ValueError: wrong palette size"
RawPaletteError == "ValueError: palette contains raw palette data"
PaletteFullError == "ValueError: cannot allocate more than 256 colors"
InvalidColorSpecifierError == "ValueError: unknown color specifier"
IndexError == "IndexError"
NoError == ""

NoPalette == [exists |-> FALSE]

Slots == {"orig", "copy"}

Exists(s) == palettes[s].exists
BufferOf(s) == buffers[palettes[s].palette]
ColorsOf(s) == colormaps[palettes[s].colors]
ChannelCount(s) == Len(palettes[s].channels)
IsRaw(s) == Truthy(palettes[s].rawmode)

EmptyDict == [k \in {} |-> 0]

Returned(op, slot, arg, val) ==
    [op |-> op, slot |-> slot, arg |-> arg, exc |-> NoError, val |-> val]
Raised(op, slot, arg, exc) ==
    [op |-> op, slot |-> slot, arg |-> arg, exc |-> exc, val |-> None]

----------------------------------------------------------------------------
(* ImagePalette.__init__ *)

\* the fields __init__ sets, and whether it raises
Construct(mode, channels, palette, size) ==
    LET chans == IF channels.some /\ Len(channels.v) > 0
                 THEN channels.v ELSE split_abbreviations(mode)
        buf   == IF palette.some /\ Len(palette.v.data) > 0
                 THEN palette.v
                 ELSE Buffer("bytearray", Ramp(Len(chans)))
    IN [mode     |-> mode,
        channels |-> chans,
        buffer   |-> buf,
        wrong    |-> \/ (size = 0 /\ Len(chans) * Entries # Len(buf.data))
                     \/ (size # 0 /\ size # Len(buf.data))]

NewPalette(mode, channels, rawmode, bufref, mapref, dirty) ==
    [exists |-> TRUE, mode |-> mode, channels |-> channels, rawmode |-> rawmode,
     palette |-> bufref, colors |-> mapref, dirty |-> dirty]

\* ImagePalette(mode, channels, palette, size) stored in the slot "orig"
New(mode, channels, palette, size) ==
    /\ ~Exists("orig")
    /\ LET c == Construct(mode, channels, palette, size)
           arg == [mode |-> mode, channels |-> channels,
                   palette |-> palette, size |-> size]
       IN IF c.wrong
          THEN /\ ret' = Raised("new", "orig", arg, InvalidSizeError)
               /\ UNCHANGED <<palettes, buffers, colormaps>>
          ELSE /\ buffers' = Append(buffers, c.buffer)
               /\ colormaps' = Append(colormaps, EmptyDict)
               /\ palettes' = [palettes EXCEPT !["orig"] =
                      NewPalette(c.mode, c.channels, None,
                                 Len(buffers) + 1, Len(colormaps) + 1, None)]
               /\ ret' = Returned("new", "orig", arg, None)
    /\ calls' = calls + 1
    /\ UNCHANGED files

----------------------------------------------------------------------------
(* raw(rawmode, data) *)

RGB == <<"R", "G", "B">>

\* palette = ImagePalette(); then the four assignments
Raw(rawmode, data) ==
    /\ ~Exists("orig")
    /\ LET c == Construct(RGB, None, None, 0) IN
       /\ buffers' = Append(buffers, data)
       /\ colormaps' = Append(colormaps, EmptyDict)
       /\ palettes' = [palettes EXCEPT !["orig"] =
              NewPalette(c.mode, split_abbreviations(rawmode), Some(rawmode),
                         Len(buffers) + 1, Len(colormaps) + 1, Some(1))]
       /\ ret' = Returned("raw", "orig", [rawmode |-> rawmode, data |-> data], None)
    /\ calls' = calls + 1
    /\ UNCHANGED files

----------------------------------------------------------------------------
(* ImagePalette.copy *)

\* a copy that keeps the source's buffer object: new.palette = self.palette
SliceAlwaysShares(buf) == TRUE

\* self.palette[:] : a new object, except that slicing all of an immutable
\* bytes object yields the object itself
SliceIsSameObject(buf) == buf.kind = "bytes"

Copy ==
    /\ Exists("orig")
    /\ ~Exists("copy")
    /\ LET self == palettes["orig"]
           shared == SliceIsSameObject(buffers[self.palette])
       IN
       /\ buffers' = IF shared THEN buffers
                     ELSE Append(buffers, buffers[self.palette])
       /\ colormaps' = Append(colormaps, colormaps[self.colors])
       /\ palettes' = [palettes EXCEPT !["copy"] =
              NewPalette(self.mode, self.channels, self.rawmode,
                         IF shared THEN self.palette ELSE Len(buffers) + 1,
                         Len(colormaps) + 1, self.dirty)]
    /\ ret' = Returned("copy", "orig", None, None)
    /\ calls' = calls + 1
    /\ UNCHANGED files

----------------------------------------------------------------------------
(* ImagePalette.getcolor *)

\* three assignments to neighbouring positions
WriteOffsetsInterleaved == <<0, 1, 2>>

\* the three assignments palette[index], palette[index+256], palette[index+512]
WriteOffsets == <<0, 256, 512>>

\* the assignments from the k-th on; an assignment raises IndexError when the
\* colour has no k-th value or the buffer has no such position
RECURSIVE Store(_, _, _, _)
Store(data, index, color, k) ==
    IF k > Len(WriteOffsets)
    THEN [data |-> data, ok |-> TRUE]
    ELSE IF k > Len(color) \/ index + WriteOffsets[k] + 1 > Len(data)
    THEN [data |-> data, ok |-> FALSE]
    ELSE Store([data EXCEPT ![index + WriteOffsets[k] + 1] = color[k]],
               index, color, k + 1)

\* a lookup that never finds the colour
KnownNever(cmap, color) == FALSE

\* self.colors[color] finds the colour (no KeyError)
Known(cmap, color) == color \in DOMAIN cmap

\* the index >= 256 test
IsFull(index) == index >= Entries

\* colors[color] = index
Record(cmap, color, index) ==
    [k \in DOMAIN cmap \cup {color} |-> IF k = color THEN index ELSE cmap[k]]

\* what one call does to the object: the exception or value, and the fields
getcolor(self, buf, cmap, color) ==
    LET same == [exc |-> NoError, val |-> None, buffer |-> buf,
                 rebuilt |-> FALSE, colors |-> cmap, dirty |-> self.dirty]
    IN
    IF Truthy(self.rawmode)
    THEN [same EXCEPT !.exc = RawPaletteError]
    ELSE IF color.type # "tuple"
    THEN [same EXCEPT !.exc = InvalidColorSpecifierError]
    ELSE IF Known(cmap, color.items)
    THEN [same EXCEPT !.val = Some(cmap[color.items])]
    ELSE LET rebuilt == buf.kind = "bytes"
             mutable == IF rebuilt THEN Buffer("bytearray", buf.data) ELSE buf
             index   == Cardinality(DOMAIN cmap)
         IN
         IF IsFull(index)
         THEN [same EXCEPT !.exc = PaletteFullError,
                           !.buffer = mutable, !.rebuilt = rebuilt]
         ELSE LET st == Store(mutable.data, index, color.items, 1) IN
              [exc     |-> IF st.ok THEN NoError ELSE IndexError,
               val     |-> IF st.ok THEN Some(index) ELSE None,
               buffer  |-> [mutable EXCEPT !.data = st.data],
               rebuilt |-> rebuilt,
               colors  |-> Record(cmap, color.items, index),
               dirty   |-> IF st.ok THEN Some(1) ELSE self.dirty]

GetColor(s, color) ==
    /\ Exists(s)
    /\ LET self == palettes[s]
           r == getcolor(self, buffers[self.palette], colormaps[self.colors], color)
       IN
       /\ IF r.rebuilt
          THEN /\ buffers' = Append(buffers, r.buffer)
               /\ palettes' = [palettes EXCEPT ![s].palette = Len(buffers) + 1,
                                               ![s].dirty = r.dirty]
          ELSE /\ buffers' = [buffers EXCEPT ![self.palette] = r.buffer]
               /\ palettes' = [palettes EXCEPT ![s].dirty = r.dirty]
       /\ colormaps' = [colormaps EXCEPT ![self.colors] = r.colors]
       /\ ret' = [op |-> "getcolor", slot |-> s, arg |-> color,
                  exc |-> r.exc, val |-> r.val]
    /\ calls' = calls + 1
    /\ UNCHANGED files

----------------------------------------------------------------------------
(* ImagePalette.tobytes and ImagePalette.getdata *)

\* a conversion that loses the last byte
AsBytesDropsLast(buf) == [kind |-> "bytes", data |-> SubSeq(buf.data, 1, Len(buf.data) - 1)]

\* array.array("B", self.palette).tobytes(), or the bytes object itself
AsBytes(buf) == Buffer("bytes", buf.data)

\* tobytes without the test of rawmode
tobytesUnguarded(self, buf) == [exc |-> NoError, val |-> Some([kind |-> "bytes", data |-> buf.data])]

tobytes(self, buf) ==
    IF Truthy(self.rawmode)
    THEN [exc |-> RawPaletteError, val |-> None]
    ELSE [exc |-> NoError, val |-> Some(AsBytes(buf))]

getdata(self, buf) ==
    IF Truthy(self.rawmode)
    THEN [exc |-> NoError, val |-> Some(<<self.rawmode.v, buf>>)]
    ELSE LET b == tobytes(self, buf) IN
         IF b.exc # NoError
         THEN b
         ELSE [exc |-> NoError, val |-> Some(<<self.mode \o <<";", "L">>, b.val.v>>)]

ToBytes(s) ==
    /\ Exists(s)
    /\ LET r == tobytes(palettes[s], BufferOf(s)) IN
       ret' = [op |-> "tobytes", slot |-> s, arg |-> None,
               exc |-> r.exc, val |-> r.val]
    /\ calls' = calls + 1
    /\ UNCHANGED <<palettes, buffers, colormaps, files>>

GetData(s) ==
    /\ Exists(s)
    /\ LET r == getdata(palettes[s], BufferOf(s)) IN
       ret' = [op |-> "getdata", slot |-> s, arg |-> None,
               exc |-> r.exc, val |-> r.val]
    /\ calls' = calls + 1
    /\ UNCHANGED <<palettes, buffers, colormaps, files>>

----------------------------------------------------------------------------
(* The palette object's life: one construction, one copy, then calls *)

MaxCalls == 4

L == <<"L">>
CMYK == <<"C", "M", "Y", "K">>

Zeros(n) == [k \in 1..n |-> 0]

Modes == {RGB, L, CMYK}
ChannelArgs == {None, Some(<< <<"X">>, <<"Y">> >>)}
PaletteArgs == {None,
                Some(Buffer("list", <<>>)),
                Some(Buffer("list", <<1, 2, 3>>)),
                Some(Buffer("list", Zeros(Entries))),
                Some(Buffer("bytes", Zeros(3 * Entries)))}
SizeArgs == {0, 3, 3 * Entries}

RawModes == {<<>>, RGB, <<"B", "G", "R", ";", "L">>}
RawData == {Buffer("bytes", <<9, 8, 7>>), Buffer("bytes", Zeros(3 * Entries))}

Tuple(items) == [type |-> "tuple", items |-> items]
ColorArgs == {Tuple(<<1, 2, 3>>), Tuple(<<7, 8, 9>>), Tuple(<<5>>),
              Tuple(<<1, 2, 3, 4>>), [type |-> "list", items |-> <<1, 2, 3>>]}

Init ==
    /\ palettes = [s \in Slots |-> NoPalette]
    /\ buffers = <<>>
    /\ colormaps = <<>>
    /\ files = <<>>
    /\ ret = Returned("none", "orig", None, None)
    /\ calls = 0

\* the caller makes fewer than n calls
Within(n) == calls < n

Next ==
    \/ \E m \in Modes, c \in ChannelArgs, p \in PaletteArgs, n \in SizeArgs :
          Within(MaxCalls) /\ New(m, c, p, n)
    \/ \E m \in RawModes, d \in RawData : Within(MaxCalls) /\ Raw(m, d)
    \/ Within(MaxCalls) /\ Copy
    \/ \E s \in Slots, c \in ColorArgs : Within(MaxCalls) /\ GetColor(s, c)
    \/ \E s \in Slots : Within(MaxCalls) /\ ToBytes(s)
    \/ \E s \in Slots : Within(MaxCalls) /\ GetData(s)

Spec == Init /\ [][Next]_vars

----------------------------------------------------------------------------
(* ImagePalette.save *)

Digits == <<"0", "1", "2", "3", "4", "5", "6", "7", "8", "9">>

\* "%d" % n for n >= 0
RECURSIVE Dec(_)
Dec(n) == IF n < 10 THEN <<Digits[n + 1]>>
          ELSE Dec(n \div 10) \o <<Digits[(n % 10) + 1]>>

\* the first buffer position the line of index i reads: range(i*C, (i+1)*C)
LineStart(i, nchannels) == i * nchannels

\* " %d" % self.palette[j], or " 0" on IndexError (j counts from 0)
SaveCell(buf, j) ==
    IF j + 1 <= Len(buf.data) THEN <<" ">> \o Dec(buf.data[j + 1]) ELSE <<" ", "0">>

\* the number of fp.write calls of a save that runs to its end
SaveWriteCount(self) == 2 + Entries * (Len(self.channels) + 2)

\* the string save passes to its k-th fp.write call
SaveWrite(self, buf, k) ==
    LET nchannels == Len(self.channels)
        perLine == nchannels + 2
    IN IF k = 1 THEN <<"#", " ", "P", "a", "l", "e", "t", "t", "e", "\n">>
       ELSE IF k = 2
       THEN <<"#", " ", "M", "o", "d", "e", ":", " ">> \o self.mode \o <<"\n">>
       ELSE LET i == (k - 3) \div perLine
                r == (k - 3) % perLine
            IN IF r = 0 THEN Dec(i)
               ELSE IF r = perLine - 1 THEN <<"\n">>
               ELSE SaveCell(buf, LineStart(i, nchannels) + r - 1)

File(by, open, written) == [by |-> by, open |-> open, written |-> written]

\* fp.close() is the last statement of save: it runs when no write raised
ClosedAfterSave(failed) == ~failed

\* save(fp): fp is a file name (the file is opened here) or a file object of
\* the caller's.  The environment decides whether open() fails and which
\* write, if any, fails (failAt = 0: none).
Save(s, env) ==
    /\ Exists(s)
    /\ LET self == palettes[s]
           by == IF env.fpIsName THEN "save" ELSE "caller"
           failed == env.failAt \in 1..SaveWriteCount(self)
           last == IF failed THEN env.failAt - 1 ELSE SaveWriteCount(self)
           done == [k \in 1..last |-> SaveWrite(self, BufferOf(s), k)]
       IN
       IF Truthy(self.rawmode)
       THEN /\ ret' = Raised("save", s, env, RawPaletteError)
            /\ files' = <<>>
       ELSE IF env.fpIsName /\ env.openFails
       THEN /\ ret' = Raised("save", s, env, "IOError: open")
            /\ files' = <<>>
       ELSE /\ ret' = IF failed THEN Raised("save", s, env, "IOError: write")
                      ELSE Returned("save", s, env, None)
            /\ files' = <<File(by, ~ClosedAfterSave(failed), done)>>
    /\ calls' = calls + 1
    /\ UNCHANGED <<palettes, buffers, colormaps>>

----------------------------------------------------------------------------
(* load *)

paletteHandlers == <<"GimpPaletteFile", "GimpGradientFile", "PaletteFile">>

PaletteLoadError == "IOError: cannot load palette"

\* the exceptions the loop swallows
Swallowed(exc) == exc \in {"SyntaxError", "ValueError"}

\* a loop that breaks on any palette, empty or not
LutAlwaysTruthy(lut) == TRUE

\* if lut:
LutTruthy(lut) == Len(lut) > 0

\* the for loop from the k-th handler on; outcome[h] is what
\* paletteHandler(fp).getpalette() does for handler h on this file
RECURSIVE LoadLoop(_, _, _)
LoadLoop(outcome, k, invoked) ==
    IF k > Len(paletteHandlers)
    THEN [exc |-> PaletteLoadError, val |-> None, invoked |-> invoked]
    ELSE LET h == paletteHandlers[k]
             o == outcome[h]
             now == Append(invoked, h)
         IN IF o.exc # NoError
            THEN IF Swallowed(o.exc)
                 THEN LoadLoop(outcome, k + 1, now)
                 ELSE [exc |-> o.exc, val |-> None, invoked |-> now]
            ELSE IF LutTruthy(o.lut)
                 THEN [exc |-> NoError, val |-> Some(o.lut), invoked |-> now]
                 ELSE LoadLoop(outcome, k + 1, now)

\* "with open(...) as fp": the file is closed however the block is left
ClosedAfterLoad(exc) == TRUE

\* load(filename): the environment decides whether open() fails and what each
\* reader does with the file
Load(file) ==
    /\ IF file.openFails
       THEN /\ ret' = [op |-> "load", slot |-> "orig", arg |-> file,
                       exc |-> "IOError: open", val |-> None, invoked |-> <<>>]
            /\ files' = <<>>
       ELSE LET r == LoadLoop(file.outcome, 1, <<>>) IN
            /\ ret' = [op |-> "load", slot |-> "orig", arg |-> file,
                       exc |-> r.exc, val |-> r.val, invoked |-> r.invoked]
            /\ files' = <<File("load", ~ClosedAfterLoad(r.exc), <<>>)>>
    /\ calls' = calls + 1
    /\ UNCHANGED <<palettes, buffers, colormaps>>

----------------------------------------------------------------------------
(* Palettes and files: construction, allocation, serialisation, save, load *)

MaxIOCalls == 3
MaxFailAt == 4
MaxLoadDepth == 1

\* what a reader can do with a file: a palette, nothing, or an exception
Lut(h) == [exc |-> NoError, lut |-> <<h, RGB>>]
Nothing == [exc |-> NoError, lut |-> <<>>]
Raises(exc) == [exc |-> exc, lut |-> <<>>]
Outcomes(h) == {Lut(h), Nothing, Raises("SyntaxError"), Raises("ValueError"),
                Raises("KeyError")}
HandlerNames == {paletteHandlers[k] : k \in 1..Len(paletteHandlers)}
LoadEnvs ==
    {[openFails |-> TRUE, outcome |-> [h \in HandlerNames |-> Nothing]]}
    \cup {[openFails |-> FALSE, outcome |-> o] :
            o \in {f \in [HandlerNames -> UNION {Outcomes(h) : h \in HandlerNames}] :
                      \A h \in HandlerNames : f[h] \in Outcomes(h)}}

\* save's environment: a file name whose open() fails, or a file name or a
\* caller's file object with no failing write or a failing write number
SaveEnvs ==
    {[fpIsName |-> TRUE, openFails |-> TRUE, failAt |-> 0]}
    \cup {[fpIsName |-> n, openFails |-> FALSE, failAt |-> k] :
            n \in BOOLEAN, k \in 0..MaxFailAt}

IOPaletteArgs == {None, Some(Buffer("list", <<1, 2, 3>>))}
IOSizeArgs == {0, 3}
IOColorArgs == {Tuple(<<1, 2, 3>>), Tuple(<<7, 8, 9>>)}

NextIO ==
    \/ \E m \in Modes, p \in IOPaletteArgs, n \in IOSizeArgs :
          Within(MaxIOCalls) /\ New(m, None, p, n)
    \/ \E m \in RawModes, d \in RawData : Within(MaxIOCalls) /\ Raw(m, d)
    \/ \E c \in IOColorArgs : Within(MaxIOCalls) /\ GetColor("orig", c)
    \/ Within(MaxIOCalls) /\ ToBytes("orig")
    \/ Within(MaxIOCalls) /\ GetData("orig")
    \/ \E env \in SaveEnvs : Within(MaxIOCalls) /\ Save("orig", env)
    \/ \E file \in LoadEnvs : Within(MaxLoadDepth) /\ Load(file)

SpecIO == Init /\ [][NextIO]_vars

----------------------------------------------------------------------------
(* Filling a palette: colours allocated one after the other up to the ceiling *)

MaxExtraCalls == 3

\* the k-th colour of an enumeration of distinct tuples of n byte values
FillColor(k, n) ==
    [c \in 1..n |-> IF c = 1 THEN k % Entries
                    ELSE IF c = 2 THEN (k \div Entries) % Entries ELSE 0]

\* the next new colour, the colour before it and the first colour
FillInputs ==
    IF Exists("orig")
    THEN LET n == Cardinality(DOMAIN ColorsOf("orig")) IN
         {Tuple(FillColor(k, ChannelCount("orig"))) : k \in {0, n - 1, n} \ {-1}}
    ELSE {}

\* at most MaxExtraCalls calls that allocate nothing
Allocated == IF Exists("orig") THEN Cardinality(DOMAIN ColorsOf("orig")) ELSE 0

NextFill ==
    \/ \E m \in Modes : Within(Allocated + MaxExtraCalls) /\ New(m, None, None, 0)
    \/ \E c \in FillInputs : Within(Allocated + MaxExtraCalls) /\ GetColor("orig", c)

SpecFill == Init /\ [][NextFill]_vars

----------------------------------------------------------------------------
(* Factories: make_linear_lut, negative, random, sepia, wedge *)

NotImplementedError == "NotImplementedError"

\* white*i//255 for i in range(256); a black other than 0 is not implemented
make_linear_lut(black, white) ==
    IF black = 0
    THEN [exc |-> NoError, val |-> [k \in 1..Entries |-> (white * (k - 1)) \div 255]]
    ELSE [exc |-> NotImplementedError, val |-> <<>>]

\* list(range(256)) and the list after reverse()
Range256 == [k \in 1..Entries |-> k - 1]
Reversed == [k \in 1..Entries |-> Entries - k]

\* list * n
Repeat(list, n) == [k \in 1..(Len(list) * n) |-> list[((k - 1) % Len(list)) + 1]]

\* the object a factory's call ImagePalette(mode, values) makes: the values
\* are the second positional argument, which is channels
Positional(mode, values) == Construct(mode, Some(values), None, 0)

\* the factory op stores the constructed object in the slot "orig"
Make(op, arg, c) ==
    /\ ~Exists("orig")
    /\ IF c.wrong
       THEN /\ ret' = Raised(op, "orig", arg, InvalidSizeError)
            /\ UNCHANGED <<palettes, buffers, colormaps>>
       ELSE /\ buffers' = Append(buffers, c.buffer)
            /\ colormaps' = Append(colormaps, EmptyDict)
            /\ palettes' = [palettes EXCEPT !["orig"] =
                   NewPalette(c.mode, c.channels, None,
                              Len(buffers) + 1, Len(colormaps) + 1, None)]
            /\ ret' = Returned(op, "orig", arg, None)
    /\ calls' = calls + 1
    /\ UNCHANGED files

negative(mode) ==
    Positional(mode, Repeat(Reversed, Len(split_abbreviations(mode))))

Negative(mode) ==
    Make("negative", [mode |-> mode, generated |-> Repeat(Reversed, Len(split_abbreviations(mode)))],
         negative(mode))

wedge(mode) ==
    Positional(mode, Repeat(Range256, Len(split_abbreviations(mode))))

Wedge(mode) ==
    Make("wedge", [mode |-> mode, generated |-> Repeat(Range256, Len(split_abbreviations(mode)))],
         wedge(mode))

\* random(mode) when the calls of randint(0, 255) return the values drawn
random(mode, drawn) == Positional(mode, drawn)

Random(mode, drawn) ==
    /\ Len(drawn) = Entries * Len(split_abbreviations(mode))
    /\ Make("random", [mode |-> mode, generated |-> drawn], random(mode, drawn))

\* sepia(white) when ImageColor.getrgb(white) returns rgb
sepia(rgb) ==
    LET r == make_linear_lut(0, rgb[1]).val
        g == make_linear_lut(0, rgb[2]).val
        b == make_linear_lut(0, rgb[3]).val
    IN Positional(RGB, r \o g \o b)

Sepia(rgb) ==
    Make("sepia", [mode |-> RGB,
                   generated |-> make_linear_lut(0, rgb[1]).val
                                 \o make_linear_lut(0, rgb[2]).val
                                 \o make_linear_lut(0, rgb[3]).val],
         sepia(rgb))

\* the palettes of the factories and of the default constructor, then calls
MaxFactoryCalls == 2

YCbCr == <<"Y", "C", "b", "C", "r">>

FactoryModes == {L, RGB, CMYK}

\* every second mode of the docstring's examples, and the modes above
DefaultModes == Modes \cup {YCbCr, <<"s", "R", "G", "B">>, <<"X", "Y", "Z", "Z">>,
                            <<"I", ";", "1", "6", "B">>, <<"1">>, <<>>}

\* outcomes of the randint calls: a constant and a stride through the bytes
Draws(n) == {[k \in 1..n |-> (a * k + 7) % Entries] : a \in {0, 5}}

\* results of ImageColor.getrgb: the default "#fff0c0" is (255, 240, 192)
SepiaWhites == {<<r, g, b>> : r \in {0, 255}, g \in {128, 240}, b \in {192, 255}}

NextFactory ==
    \/ \E m \in FactoryModes : Within(MaxFactoryCalls) /\ Negative(m)
    \/ \E m \in FactoryModes : Within(MaxFactoryCalls) /\ Wedge(m)
    \/ \E m \in FactoryModes :
          \E d \in Draws(Entries * Len(split_abbreviations(m))) :
             Within(MaxFactoryCalls) /\ Random(m, d)
    \/ \E w \in SepiaWhites : Within(MaxFactoryCalls) /\ Sepia(w)
    \/ \E m \in DefaultModes : Within(MaxFactoryCalls) /\ New(m, None, None, 0)
    \/ \E c \in IOColorArgs : Within(MaxFactoryCalls) /\ GetColor("orig", c)
    \/ Within(MaxFactoryCalls) /\ ToBytes("orig")
    \/ Within(MaxFactoryCalls) /\ GetData("orig")

SpecFactory == Init /\ [][NextFactory]_vars

----------------------------------------------------------------------------
(* split_abbreviations applied to one string *)

MaxSplitLen == 5

\* an alphabet of uppercase letters, a lowercase letter, a digit and ';'
SplitAlphabet == {"A", "B", "a", "1", ";"}

\* the strings of the docstring's examples
SplitExamples == {RGB, CMYK, YCbCr, <<"s", "R", "G", "B">>,
                  <<"X", "Y", "Z", "Z">>, <<"I", ";", "1", "6", "B">>}

SplitInputs ==
    SplitExamples \cup UNION {[1..n -> SplitAlphabet] : n \in 0..MaxSplitLen}

\* the caller holds a string s
InitSplit ==
    /\ palettes = [s \in Slots |-> NoPalette]
    /\ buffers = <<>>
    /\ colormaps = <<>>
    /\ files = <<>>
    /\ \E s \in SplitInputs : ret = Returned("input", "orig", s, None)
    /\ calls = 0

\* split_abbreviations(s)
Split ==
    /\ ret.op = "input"
    /\ ret' = Returned("split_abbreviations", "orig", ret.arg,
                       Some(split_abbreviations(ret.arg)))
    /\ calls' = calls + 1
    /\ UNCHANGED <<palettes, buffers, colormaps, files>>

NextSplit == Split

SpecSplit == InitSplit /\ [][NextSplit]_vars

----------------------------------------------------------------------------
(* Properties *)

\* the step just taken is a call of op
Called(op) == calls' # calls /\ ret'.op = op

\* a palette made by the constructor (raw() was not used)
Structured(s) == Exists(s) /\ ~palettes[s].rawmode.some

\* a palette made by raw()
BuiltByRaw(s) == Exists(s) /\ palettes[s].rawmode.some

IsByte(v) == v \in 0..(Entries - 1)

\* the position of index i of channel c (both from 0) in the channel-major
\* layout, as a position of a sequence
Offset(c, i) == c * Entries + i + 1

\* C1: on a Structured palette with C channels and fewer than 256 allocated
\* colours, getcolor on a new tuple of C byte values returns the number of
\* colours allocated before, writes color[c] at offset c*256 + index for every
\* channel c, records the colour under that index and sets dirty.
C1_GetColorAllocates ==
    [][\A s \in Slots :
        LET color == ret'.arg
            n == Cardinality(DOMAIN ColorsOf(s))
        IN
        ( /\ Called("getcolor") /\ ret'.slot = s
          /\ Structured(s)
          /\ n < Entries
          /\ color.type = "tuple"
          /\ Len(color.items) = ChannelCount(s)
          /\ \A c \in 1..Len(color.items) : IsByte(color.items[c])
          /\ color.items \notin DOMAIN ColorsOf(s) )
        => ( /\ ret'.exc = NoError
             /\ ret'.val = Some(n)
             /\ \A c \in 0..(ChannelCount(s) - 1) :
                   /\ Offset(c, n) <= Len(BufferOf(s)'.data)
                   /\ BufferOf(s)'.data[Offset(c, n)] = color.items[c + 1]
             /\ color.items \in DOMAIN ColorsOf(s)'
             /\ ColorsOf(s)'[color.items] = n
             /\ palettes'[s].dirty = Some(1) )
    ]_vars

\* C2: getcolor with a tuple that is already in colors returns the recorded
\* index and changes neither colors, the buffer nor dirty; a call that
\* repeats the previous call's tuple adds no entry and returns the index the
\* previous call returned; no call adds more than one entry.
C2_GetColorIdempotent ==
    [][\A s \in Slots :
        (Called("getcolor") /\ ret'.slot = s /\ Structured(s)
            /\ ret'.arg.type = "tuple")
        => LET color == ret'.arg
               before == ColorsOf(s)
               after == ColorsOf(s)'
           IN
           /\ color.items \in DOMAIN before =>
                 /\ ret'.exc = NoError
                 /\ ret'.val = Some(before[color.items])
                 /\ after = before
                 /\ BufferOf(s)' = BufferOf(s)
                 /\ palettes' = palettes
           /\ Cardinality(DOMAIN after) <= Cardinality(DOMAIN before) + 1
           /\ (ret.op = "getcolor" /\ ret.slot = s /\ ret.arg = color) =>
                 /\ after = before
                 /\ ret.exc = NoError => (ret'.exc = NoError /\ ret'.val = ret.val)
    ]_vars

\* two colours were allocated and the first was asked for again
C2_Witness ==
    /\ ret.op = "getcolor"
    /\ Structured(ret.slot)
    /\ ret.exc = NoError
    /\ ret.val = Some(0)
    /\ Cardinality(DOMAIN ColorsOf(ret.slot)) = 2

\* C3: colors never holds more than 256 entries; the 256th distinct colour is
\* allocated successfully with index 255; with 256 colours allocated, asking
\* for a further colour fails with PaletteFullError and changes neither
\* colors nor the buffer.
C3_Ceiling ==
    /\ [](\A s \in Slots : Exists(s) => Cardinality(DOMAIN ColorsOf(s)) <= Entries)
    /\ [][\A s \in Slots :
            LET color == ret'.arg
                n == Cardinality(DOMAIN ColorsOf(s))
            IN
            ( /\ Called("getcolor") /\ ret'.slot = s
              /\ Structured(s)
              /\ color.type = "tuple"
              /\ color.items \notin DOMAIN ColorsOf(s) )
            => /\ n = Entries - 1 =>
                     /\ ret'.exc = NoError
                     /\ ret'.val = Some(Entries - 1)
                     /\ Cardinality(DOMAIN ColorsOf(s)') = Entries
               /\ n = Entries =>
                     /\ ret'.exc = PaletteFullError
                     /\ ColorsOf(s)' = ColorsOf(s)
                     /\ BufferOf(s)'.data = BufferOf(s).data
       ]_vars

\* C4: copy() returns a palette with the source's mode, channels, raw-mode
\* tag, buffer contents, colors and dirty flag; afterwards a getcolor call on
\* either of the two palettes leaves the other's buffer, colors and dirty
\* as they were.
C4_CopyIndependent ==
    /\ [](ret.op = "copy" =>
            /\ Exists("copy")
            /\ palettes["copy"].mode = palettes["orig"].mode
            /\ palettes["copy"].channels = palettes["orig"].channels
            /\ palettes["copy"].rawmode = palettes["orig"].rawmode
            /\ palettes["copy"].dirty = palettes["orig"].dirty
            /\ BufferOf("copy") = BufferOf("orig")
            /\ ColorsOf("copy") = ColorsOf("orig"))
    /\ [][\A s \in Slots, other \in Slots :
            (Called("getcolor") /\ ret'.slot = s /\ other # s /\ Exists(other))
            => /\ BufferOf(other)' = BufferOf(other)
               /\ ColorsOf(other)' = ColorsOf(other)
               /\ palettes'[other] = palettes[other]
       ]_vars

\* a colour was allocated in the copy, whose buffer and colors now differ
\* from the original's
C4_Witness ==
    /\ Exists("copy")
    /\ ret.op = "getcolor" /\ ret.slot = "copy" /\ ret.exc = NoError
    /\ BufferOf("copy").data # BufferOf("orig").data
    /\ ColorsOf("copy") # ColorsOf("orig")
    /\ Cardinality(DOMAIN ColorsOf("orig")) = 1

\* a palette made by raw() with a raw-mode tag that is not the empty string
BuiltByRawTagged(s) == BuiltByRaw(s) /\ palettes[s].rawmode.v # <<>>

GetDataReturns(s, lengthOk) ==
    /\ ret'.exc = NoError
    /\ BuiltByRaw(s) =>
          ret'.val = Some(<<palettes[s].rawmode.v, BufferOf(s)>>)
    /\ Structured(s) =>
          /\ ret'.val = Some(<<palettes[s].mode \o <<";", "L">>,
                               Buffer("bytes", BufferOf(s).data)>>)
          /\ lengthOk
    /\ palettes' = palettes
    /\ buffers' = buffers
    /\ colormaps' = colormaps

C7_SizeValidation ==
    (ret.op = "new" /\ ret.arg.palette.some)
    => LET a == ret.arg
           supplied == a.palette.v
           count == IF a.channels.some /\ a.channels.v # <<>>
                    THEN Len(a.channels.v)
                    ELSE Len(split_abbreviations(a.mode))
           bad == \/ (a.size = 0 /\ Len(supplied.data) # Entries * count)
                  \/ (a.size # 0 /\ a.size # Len(supplied.data))
       IN /\ ret.exc = InvalidSizeError <=> bad
          /\ ~bad => (Exists("orig") /\ BufferOf("orig") = supplied)

\* s[lo] \o ... \o s[hi]
RECURSIVE Join(_, _, _)
Join(s, lo, hi) ==
    IF lo > hi THEN <<>>
    ELSE IF lo = hi THEN s[lo]
    ELSE LET mid == (lo + hi) \div 2 IN Join(s, lo, mid) \o Join(s, mid + 1, hi)

\* the dump of the channel-major layout: index i, then for each channel c the
\* byte at offset c*256 + i, or 0 past the end of the buffer
ChannelMajorDump(s) ==
    LET data == BufferOf(s).data
        value(c, i) == IF Offset(c, i) <= Len(data) THEN data[Offset(c, i)] ELSE 0
        cells(i) == [c \in 1..ChannelCount(s) |-> <<" ">> \o Dec(value(c - 1, i))]
        lines == [k \in 1..(Entries + 2) |->
                    IF k = 1 THEN <<"#", " ", "P", "a", "l", "e", "t", "t", "e", "\n">>
                    ELSE IF k = 2
                    THEN <<"#", " ", "M", "o", "d", "e", ":", " ">>
                            \o palettes[s].mode \o <<"\n">>
                    ELSE Dec(k - 3) \o Join(cells(k - 3), 1, ChannelCount(s))
                            \o <<"\n">>]
    IN Join(lines, 1, Entries + 2)

\* C8: save on a Structured palette writes "# Palette", "# Mode: <mode>" and
\* then, for each index i from 0 to 255 in order, a line with i followed by
\* the bytes at offsets c*256 + i for c = 0..C-1 (0 past the end).
C8_SaveDump ==
    (ret.op = "save" /\ ret.exc = NoError /\ Structured(ret.slot))
    => /\ Len(files) = 1
       /\ Join(files[1].written, 1, Len(files[1].written)) = ChannelMajorDump(ret.slot)

\* C9: load tries GimpPaletteFile, GimpGradientFile, PaletteFile in this
\* order, returns what the first reader that neither raises SyntaxError or
\* ValueError nor yields an empty palette returns (or raises what it raises),
\* invokes no reader after it, and fails with PaletteLoadError exactly when
\* every reader raised such an error or yielded nothing.
C9_LoadFirstReader ==
    (ret.op = "load" /\ ~ret.arg.openFails)
    => LET order == <<"GimpPaletteFile", "GimpGradientFile", "PaletteFile">>
           o(k) == ret.arg.outcome[order[k]]
           skipped(k) == \/ o(k).exc \in {"SyntaxError", "ValueError"}
                         \/ (o(k).exc = NoError /\ o(k).lut = <<>>)
           stops == {k \in 1..Len(order) : ~skipped(k)}
       IN /\ ret.exc = PaletteLoadError <=> stops = {}
          /\ stops = {} => ret.invoked = order
          /\ stops # {} =>
                LET k == CHOOSE j \in stops : \A i \in stops : j <= i IN
                /\ ret.invoked = SubSeq(order, 1, k)
                /\ o(k).exc = NoError => (ret.exc = NoError /\ ret.val = Some(o(k).lut))
                /\ o(k).exc # NoError => ret.exc = o(k).exc

\* the first reader yielded nothing, the second a palette, which load
\* returned without invoking the third, which would have yielded one too
C9_Witness ==
    /\ ret.op = "load"
    /\ ~ret.arg.openFails
    /\ ret.arg.outcome["GimpPaletteFile"] = Nothing
    /\ ret.arg.outcome["PaletteFile"] = Lut("PaletteFile")
    /\ ret.invoked = <<"GimpPaletteFile", "GimpGradientFile">>
    /\ ret.val = Some(<<"GimpGradientFile", RGB>>)

\* C10: every file save or load opened or used is closed when the call
\* returns, however it returns.
C10_FilesClosed ==
    ret.op \in {"save", "load"} => \A i \in 1..Len(files) : ~files[i].open

\* C11: on a palette made by the constructor, getcolor fails with
\* InvalidColorSpecifierError whenever the colour is not a tuple, or is a
\* tuple whose number of values differs from the number of channels.
C11_InvalidColorSpecifier ==
    [][\A s \in Slots :
        LET color == ret'.arg IN
        ( /\ Called("getcolor") /\ ret'.slot = s
          /\ Structured(s)
          /\ \/ color.type # "tuple"
             \/ Len(color.items) # ChannelCount(s) )
        => ret'.exc = InvalidColorSpecifierError
    ]_vars

\* the last call was a factory's and returned a palette
FromFactory == ret.op \in {"negative", "random", "wedge", "sepia"} /\ Exists("orig")

\* C12: negative(mode) returns a Structured palette whose byte at offset
\* c*256 + i is 255 - i for every channel c of the mode and every index i.
C12_NegativeRamp ==
    (ret.op = "negative") =>
        /\ Structured("orig")
        /\ \A c \in 0..(Len(split_abbreviations(ret.arg.mode)) - 1), i \in 0..(Entries - 1) :
              /\ Offset(c, i) <= Len(BufferOf("orig").data)
              /\ BufferOf("orig").data[Offset(c, i)] = Entries - 1 - i

\* C13: wedge(mode) returns a Structured palette whose buffer has length
\* 256 * channelCount(mode) and whose byte at offset c*256 + i is i for every
\* channel c of the mode and every index i.
C13_WedgeRamp ==
    (ret.op = "wedge") =>
        LET C == Len(split_abbreviations(ret.arg.mode)) IN
        /\ Structured("orig")
        /\ Len(BufferOf("orig").data) = Entries * C
        /\ \A c \in 0..(C - 1), i \in 0..(Entries - 1) :
              /\ Offset(c, i) <= Len(BufferOf("orig").data)
              /\ BufferOf("orig").data[Offset(c, i)] = i

\* C14: ImagePalette(M) with no channels, buffer or size yields a Structured
\* palette whose channels are split_abbreviations(M), with empty colors,
\* dirty unset and a buffer of length 256 * channelCount(M) whose byte at
\* offset c*256 + i is i for every channel c and index i.
C14_DefaultPalette ==
    (/\ ret.op = "new"
     /\ ret.arg.channels = None /\ ret.arg.palette = None /\ ret.arg.size = 0)
    => LET M == ret.arg.mode
           labels == split_abbreviations(M)
           C == Len(labels)
       IN
       /\ ret.exc = NoError
       /\ Structured("orig")
       /\ palettes["orig"].mode = M
       /\ Len(palettes["orig"].channels) = C
       /\ palettes["orig"].channels = labels
       /\ ColorsOf("orig") = EmptyDict
       /\ palettes["orig"].dirty = None
       /\ Len(BufferOf("orig").data) = Entries * C
       /\ \A c \in 0..(C - 1), i \in 0..(Entries - 1) :
             BufferOf("orig").data[Offset(c, i)] = i

\* the default palette of mode YCbCr was made: three channels, 768 bytes
C14_Witness ==
    /\ ret.op = "new"
    /\ ret.arg.mode = YCbCr
    /\ ret.exc = NoError
    /\ Exists("orig")
    /\ ChannelCount("orig") = 3
    /\ Len(BufferOf("orig").data) = 3 * Entries

\* the part of s before its first ';'
Part(s) ==
    LET semis == {i \in 1..Len(s) : s[i] = ";"} IN
    IF semis = {} THEN s
    ELSE SubSeq(s, 1, (CHOOSE i \in semis : \A j \in semis : i <= j) - 1)

\* the positions of p where a token starts: the first character and every
\* character that is not a lowercase letter
Starts(p) == {i \in 1..Len(p) : i = 1 \/ p[i] \notin Lower}

\* the token of p that starts at i, and whether it is the last one
TokenAt(p, i) ==
    LET later == {j \in Starts(p) : j > i} IN
    IF later = {} THEN SubSeq(p, i, Len(p))
    ELSE SubSeq(p, i, (CHOOSE j \in later : \A k \in later : j <= k) - 1)
IsLastToken(p, i) == \A j \in Starts(p) : j <= i

\* made of lowercase letters only
AllLower(t) == \A i \in 1..Len(t) : t[i] \in Lower

\* the docstring's examples with their results
SplitExpected ==
    {[s |-> RGB, labels |-> << <<"R">>, <<"G">>, <<"B">> >>],
     [s |-> CMYK, labels |-> << <<"C">>, <<"M">>, <<"Y">>, <<"K">> >>],
     [s |-> YCbCr, labels |-> << <<"Y">>, <<"C", "b">>, <<"C", "r">> >>],
     [s |-> <<"s", "R", "G", "B">>, labels |-> << <<"R">>, <<"G">>, <<"B">> >>],
     [s |-> <<"X", "Y", "Z", "Z">>, labels |-> << <<"X">>, <<"Y">>, <<"Z">> >>],
     [s |-> <<"I", ";", "1", "6", "B">>, labels |-> << <<"I">> >>]}

\* C15: split_abbreviations returns the documented labels for the six worked
\* examples; what follows the first ';' does not change the result; and
\* every label returned is a token of the part before the first ';' that is
\* the last token or is not entirely lowercase.
C15_SplitExamples ==
    (ret.op = "split_abbreviations") =>
        LET s == ret.arg
            out == ret.val.v
            p == Part(s)
        IN
        /\ \A e \in SplitExpected : s = e.s => out = e.labels
        /\ out = split_abbreviations(p)
        /\ \A k \in 1..Len(out) :
              \E i \in Starts(p) :
                 /\ TokenAt(p, i) = out[k]
                 /\ IsLastToken(p, i) \/ ~AllLower(out[k])
        /\ \A i \in Starts(p) :
              (~IsLastToken(p, i) /\ AllLower(TokenAt(p, i)))
                 => \A k \in 1..Len(out) : out[k] # TokenAt(p, i)

\* 'I;16B' was split into the single label I
C15_Witness ==
    /\ ret.op = "split_abbreviations"
    /\ ret.arg = <<"I", ";", "1", "6", "B">>
    /\ ret.val = Some(<< <<"I">> >>)

\* the first position of p at which the token t starts
FirstAt(p, t) ==
    CHOOSE i \in Starts(p) :
       /\ TokenAt(p, i) = t
       /\ \A j \in Starts(p) : TokenAt(p, j) = t => i <= j

EmittedAt(p, i) == IsLastToken(p, i) \/ ~islower(TokenAt(p, i))

\* the first position of p at which the token t starts and is emitted
FirstEmittedAt(p, t) ==
    CHOOSE i \in Starts(p) :
       /\ TokenAt(p, i) = t /\ EmittedAt(p, i)
       /\ \A j \in Starts(p) : (TokenAt(p, j) = t /\ EmittedAt(p, j)) => i <= j

C17_RawPalette ==
    /\ [](ret.op = "raw" =>
            /\ BuiltByRaw("orig")
            /\ palettes["orig"].rawmode = Some(ret.arg.rawmode)
            /\ BufferOf("orig") = ret.arg.data
            /\ palettes["orig"].dirty = Some(1)
            /\ palettes["orig"].channels = split_abbreviations(ret.arg.rawmode))
    /\ [][\A s \in Slots :
            (Called("getcolor") /\ ret'.slot = s /\ BuiltByRaw(s))
            => /\ ret'.exc = RawPaletteError
               /\ BufferOf(s)'.data = BufferOf(s).data
               /\ palettes'[s].rawmode = palettes[s].rawmode
               /\ ColorsOf(s)' = ColorsOf(s)
               /\ palettes'[s].dirty = palettes[s].dirty
       ]_vars

\* C19: a getcolor call that fails (raw palette, full palette, non-tuple
\* colour, too few values, buffer too short) leaves colors, the buffer
\* bytes and dirty as they were before the call.
C19_GetColorAtomic ==
    [][\A s \in Slots :
        (Called("getcolor") /\ ret'.slot = s /\ ret'.exc # NoError)
        => /\ ColorsOf(s)' = ColorsOf(s)
           /\ BufferOf(s)'.data = BufferOf(s).data
           /\ palettes'[s].dirty = palettes[s].dirty
    ]_vars

\* C18: every palette returned by negative, random, wedge and sepia has the
\* labels split_abbreviations derives from its mode as its channels, and a
\* buffer of 256 * that number of labels bytes, which are the values the
\* factory generated.
C18_FactoryPalettes ==
    FromFactory =>
        LET labels == split_abbreviations(palettes["orig"].mode) IN
        /\ palettes["orig"].mode = ret.arg.mode
        /\ Len(palettes["orig"].channels) = Len(labels)
        /\ palettes["orig"].channels = labels
        /\ Len(BufferOf("orig").data) = Entries * Len(labels)
        /\ BufferOf("orig").data = ret.arg.generated

\* the index whose slot the position p of a buffer is: p = c*256 + index + 1
IndexOfPosition(p) == (p - 1) % Entries

\* C20: the indices recorded in colors are exactly 0..n-1 for n recorded
\* colours and no two colours share an index; a getcolor call that
\* allocates index k changes only buffer bytes at offsets c*256 + k and no
\* recorded index, so every colour allocated earlier reads back unchanged
\* at its own index.
C20_IndexAllocation ==
    /\ [](\A s \in Slots : Exists(s) =>
            LET cmap == ColorsOf(s)
                n == Cardinality(DOMAIN cmap)
            IN
            /\ {cmap[t] : t \in DOMAIN cmap} = 0..(n - 1)
            /\ \A t, u \in DOMAIN cmap : cmap[t] = cmap[u] => t = u)
    /\ [][\A s \in Slots :
            (Called("getcolor") /\ ret'.slot = s /\ ColorsOf(s)' # ColorsOf(s))
            => LET before == ColorsOf(s)
                   after == ColorsOf(s)'
                   k == Cardinality(DOMAIN before)
                   old == BufferOf(s).data
                   new == BufferOf(s)'.data
               IN
               /\ DOMAIN after = DOMAIN before \cup {ret'.arg.items}
               /\ after[ret'.arg.items] = k
               /\ \A t \in DOMAIN before : after[t] = before[t]
               /\ Len(new) = Len(old)
               /\ \A p \in 1..Len(old) :
                     new[p] # old[p] =>
                        /\ IndexOfPosition(p) = k
                        /\ \A t \in DOMAIN before : before[t] # IndexOfPosition(p)
       ]_vars

\* three colours are recorded in a palette, under the indices 0, 1 and 2
C20_Witness ==
    /\ ret.op = "getcolor"
    /\ ret.exc = NoError
    /\ ret.val = Some(2)
    /\ Cardinality(DOMAIN ColorsOf(ret.slot)) = 3

====
